---- MODULE Spec2Model ----
(***************************************************************************)
(* A model of csvali (src/main.ts): the character-level Lexer, the         *)
(* token-driven Parser and the field-escaping Writer.                      *)
(*                                                                         *)
(* A text is a sequence of one-character strings.  A nullable string       *)
(* (string | null) is either a text or Null.                               *)
(***************************************************************************)
EXTENDS Integers, Sequences, FiniteSets, TLC

\* ------------------------------------------------------------------ bounds
MaxLen == 4      \* longest csv text handed to the Parser and to the Lexer
MaxText == 3     \* longest value handed to WrapValueForCsv
MaxWrites == 5   \* most texts one Writer hands to its sink

\* -------------------------------------------------------------- characters
CR == "\r"
LF == "\n"
Ordinary == "a"
Comma == ","
DoubleQuote == "\""

\* The alphabet the inputs are drawn from.
Alphabet == {Ordinary, Comma, DoubleQuote, CR, LF}

\* null / undefined of the source.  It is no text: its only element is not
\* a character.
Null == <<"null">>

\* reader.read() / reader.peek() at the end of the content (-1).
EndOfInput == "-1"

RECURSIVE TextsOfLen(_, _)
TextsOfLen(S, n) ==
    IF n = 0 THEN {<<>>}
    ELSE {Append(t, c) : t \in TextsOfLen(S, n - 1), c \in S}

TextsUpTo(S, n) == UNION {TextsOfLen(S, k) : k \in 0..n}

\* ------------------------------------------------------------------ tokens
TokenType == {"NotSet", "Text", "LineSeparator", "Delimiter", "Quote", "EndOfFile"}

Token(type, value) == [Type |-> type, Value |-> value]

NotSetToken == Token("NotSet", Null)

\* ---------------------------------------------------------------- settings
Minimal == "Minimal"
QuoteAll == "QuoteAll"

ParseSettings ==
    [FieldDelimiter |-> Comma,
     QuotingCharacter |-> DoubleQuote,
     RowDelimiter |-> <<CR, LF>>,
     QuotingMode |-> Minimal]

\* -------------------------------------------------------------- TextReader
TextReader(content) == [content |-> content, position |-> 0]

read(reader) ==
    IF reader.position >= Len(reader.content)
    THEN [code |-> EndOfInput, reader |-> reader]
    ELSE [code |-> reader.content[reader.position + 1],
          reader |-> [reader EXCEPT !.position = @ + 1]]

peek(reader) ==
    IF reader.position >= Len(reader.content)
    THEN EndOfInput
    ELSE reader.content[reader.position + 1]

\* ------------------------------------------------------------------- Lexer
\* validateSettings with the length of the row delimiter not checked.
validateSettingsNoLength(settings) ==
    IF settings.RowDelimiter = Null \/ Len(settings.RowDelimiter) = 0
    THEN "Csv row delimiter cannot be null."
    ELSE "none"

\* The error validateSettings raises, or "none".
validateSettings(settings) ==
    IF settings.RowDelimiter = Null \/ Len(settings.RowDelimiter) = 0
    THEN "Csv row delimiter cannot be null."
    ELSE IF Len(settings.RowDelimiter) > 2
    THEN "Csv row delimiter too long, maximum length: 2."
    ELSE "none"

\* The scanReader generator between two pulls: where it is suspended
\* ("start": not begun; "yield131", "yield134", "yield141", "yield143": at the
\* yield of that line; "done": returned or threw), its buffer, and the
\* special token it still has to yield after the Text token of line 131.
Generator(pc, buffer, special) == [pc |-> pc, buffer |-> buffer, special |-> special]

NewGenerator == Generator("start", <<>>, NotSetToken)

\* What one next() hands back.
Pull(done, threw, value, reader, gen) ==
    [done |-> done, threw |-> threw, value |-> value, reader |-> reader, gen |-> gen]

\* classify with the first character of the row delimiter taken for the
\* whole of it, whatever follows.
classifyFirstAlone(settings, current, reader) ==
    IF current = settings.FieldDelimiter
    THEN [special |-> Token("Delimiter", <<settings.FieldDelimiter>>), reader |-> reader]
    ELSE IF current = settings.QuotingCharacter
    THEN [special |-> Token("Quote", <<settings.QuotingCharacter>>), reader |-> reader]
    ELSE IF current = settings.RowDelimiter[1]
    THEN [special |-> Token("LineSeparator", settings.RowDelimiter), reader |-> reader]
    ELSE [special |-> NotSetToken, reader |-> reader]

\* classify with the second character of the row delimiter peeked at and
\* left in the reader.
classifyPeekOnly(settings, current, reader) ==
    LET first == settings.RowDelimiter[1]
        second == IF Len(settings.RowDelimiter) > 1
                  THEN settings.RowDelimiter[2] ELSE EndOfInput
        hasSecond == Len(settings.RowDelimiter) > 1
    IN  IF current = settings.FieldDelimiter
        THEN [special |-> Token("Delimiter", <<settings.FieldDelimiter>>), reader |-> reader]
        ELSE IF current = settings.QuotingCharacter
        THEN [special |-> Token("Quote", <<settings.QuotingCharacter>>), reader |-> reader]
        ELSE IF current = first
        THEN IF ~hasSecond
             THEN [special |-> Token("LineSeparator", settings.RowDelimiter), reader |-> reader]
             ELSE IF peek(reader) = second
             THEN [special |-> Token("LineSeparator", settings.RowDelimiter),
                   reader |-> reader]
             ELSE [special |-> NotSetToken, reader |-> reader]
        ELSE [special |-> NotSetToken, reader |-> reader]

\* Lines 112-127: the special token the character just read stands for
\* (NotSet when it is an ordinary character), and the reader after the
\* second character of the row delimiter was consumed.
classify(settings, current, reader) ==
    LET first == settings.RowDelimiter[1]
        second == IF Len(settings.RowDelimiter) > 1
                  THEN settings.RowDelimiter[2] ELSE EndOfInput
        hasSecond == Len(settings.RowDelimiter) > 1
    IN  IF current = settings.FieldDelimiter
        THEN [special |-> Token("Delimiter", <<settings.FieldDelimiter>>), reader |-> reader]
        ELSE IF current = settings.QuotingCharacter
        THEN [special |-> Token("Quote", <<settings.QuotingCharacter>>), reader |-> reader]
        ELSE IF current = first
        THEN IF ~hasSecond
             THEN [special |-> Token("LineSeparator", settings.RowDelimiter), reader |-> reader]
             ELSE IF peek(reader) = second
             THEN [special |-> Token("LineSeparator", settings.RowDelimiter),
                   reader |-> read(reader).reader]
             ELSE [special |-> NotSetToken, reader |-> reader]
        ELSE [special |-> NotSetToken, reader |-> reader]

\* Lines 111-143: the while loop from its head up to the next yield.
RECURSIVE scanLoop(_, _, _)
scanLoop(settings, reader, buffer) ==
    LET r == read(reader) IN
    IF r.code = EndOfInput
    THEN IF Len(buffer) > 0
         THEN Pull(FALSE, "none", Token("Text", buffer), r.reader,
                   Generator("yield141", buffer, NotSetToken))
         ELSE Pull(FALSE, "none", Token("EndOfFile", Null), r.reader,
                   Generator("yield143", buffer, NotSetToken))
    ELSE LET c == classify(settings, r.code, r.reader) IN
         IF c.special.Type # "NotSet"
         THEN IF Len(buffer) > 0
              THEN Pull(FALSE, "none", Token("Text", buffer), c.reader,
                        Generator("yield131", buffer, c.special))
              ELSE Pull(FALSE, "none", c.special, c.reader,
                        Generator("yield134", buffer, NotSetToken))
         ELSE scanLoop(settings, c.reader, Append(buffer, r.code))

\* scanReader with a second EndOfFile token yielded after the first.
scanReaderEndOfFileTwice(settings, reader, gen) ==
    CASE gen.pc = "start" ->
            IF validateSettings(settings) # "none"
            THEN Pull(TRUE, validateSettings(settings), NotSetToken, reader,
                      Generator("done", <<>>, NotSetToken))
            ELSE scanLoop(settings, reader, <<>>)
      [] gen.pc = "yield131" ->
            Pull(FALSE, "none", gen.special, reader,
                 Generator("yield134", <<>>, NotSetToken))
      [] gen.pc = "yield134" -> scanLoop(settings, reader, gen.buffer)
      [] gen.pc = "yield141" ->
            Pull(FALSE, "none", Token("EndOfFile", Null), reader,
                 Generator("yield143", gen.buffer, NotSetToken))
      [] gen.pc = "yield143" ->
            Pull(FALSE, "none", Token("EndOfFile", Null), reader,
                 Generator("done", gen.buffer, NotSetToken))
      [] OTHER ->
            Pull(TRUE, "none", NotSetToken, reader, gen)

\* One next() of the generator scanReader returns.
scanReader(settings, reader, gen) ==
    CASE gen.pc = "start" ->
            IF validateSettings(settings) # "none"
            THEN Pull(TRUE, validateSettings(settings), NotSetToken, reader,
                      Generator("done", <<>>, NotSetToken))
            ELSE scanLoop(settings, reader, <<>>)
      [] gen.pc = "yield131" ->
            Pull(FALSE, "none", gen.special, reader,
                 Generator("yield134", <<>>, NotSetToken))
      [] gen.pc = "yield134" -> scanLoop(settings, reader, gen.buffer)
      [] gen.pc = "yield141" ->
            Pull(FALSE, "none", Token("EndOfFile", Null), reader,
                 Generator("yield143", gen.buffer, NotSetToken))
      [] gen.pc = "yield143" ->
            Pull(TRUE, "none", NotSetToken, reader, Generator("done", gen.buffer, NotSetToken))
      [] OTHER ->
            Pull(TRUE, "none", NotSetToken, reader, gen)

\* Every token the generator yields from the pull p on, in order.
RECURSIVE drain(_, _)
drain(settings, p) ==
    IF p.done THEN <<>>
    ELSE <<p.value>> \o drain(settings, scanReader(settings, p.reader, p.gen))

\* Lines 100-103: every token scan(input) yields.
scan(settings, input) ==
    drain(settings, scanReader(settings, TextReader(input), NewGenerator))

\* ------------------------------------------------------------------ Parser
\* ReadNextRow's "no row" (null).  It is no row: its only element is not a
\* field value.
NullRow == << <<"null", "row">> >>

InternalError == "Unexpected end of lexer output, expected EndOfFile token."

\* The Parser object: the reader and the generator behind this.tokens
\* ("scanReader": the Lexer's; "empty": the empty generator Dispose installs),
\* this.current (NotSetToken while undefined) and whether OwnedReader is set.
NewParser(csv, settings, owned) ==
    [Settings |-> settings,
     reader |-> TextReader(csv),
     gen |-> NewGenerator,
     tokens |-> "scanReader",
     current |-> NotSetToken,
     OwnedReader |-> owned]

CurrentToken(p) == p.current

CurrentTokenType(p) == p.current.Type

HasMoreRows(p) == CurrentTokenType(p) # "EndOfFile"

\* Lines 289-296: moveNext once this.tokens.next() has handed back r.
\* threw: the error the generator raised inside next().
moved(p, r) ==
    LET q == [p EXCEPT !.reader = r.reader, !.gen = r.gen]
    IN  IF r.threw # "none"
        THEN [ok |-> FALSE, threw |-> r.threw, parser |-> q]
        ELSE IF r.done
        THEN [ok |-> FALSE, threw |-> "none",
              parser |-> [q EXCEPT !.current = Token("EndOfFile", Null)]]
        ELSE [ok |-> TRUE, threw |-> "none",
              parser |-> [q EXCEPT !.current = r.value]]

\* moveNext with a second token pulled over the first.
moveNextSkipsOne(p) ==
    IF p.tokens = "empty"
    THEN moved(p, Pull(TRUE, "none", NotSetToken, p.reader, p.gen))
    ELSE LET first == moved(p, scanReader(p.Settings, p.reader, p.gen))
         IN  IF ~first.ok THEN first
             ELSE moved(first.parser,
                        scanReader(p.Settings, first.parser.reader, first.parser.gen))

\* Lines 284-297.  The empty generator Dispose installs is done at once.
moveNext(p) ==
    IF p.tokens = "empty"
    THEN moved(p, Pull(TRUE, "none", NotSetToken, p.reader, p.gen))
    ELSE moved(p, scanReader(p.Settings, p.reader, p.gen))

\* Dispose with this.current dropped as well.
DisposeAndForget(p) ==
    [p EXCEPT !.tokens = "empty", !.OwnedReader = FALSE, !.current = NotSetToken]

\* Dispose with this.tokens left in place.
DisposeKeepsTokens(p) == [p EXCEPT !.OwnedReader = FALSE]

\* Lines 299-303.
Dispose(p) == [p EXCEPT !.tokens = "empty", !.OwnedReader = FALSE]

\* nextValue.join("")
RECURSIVE join(_)
join(parts) == IF parts = <<>> THEN <<>> ELSE Head(parts) \o join(Tail(parts))

\* Token.Value || ""
OrEmpty(value) == IF value = Null THEN <<>> ELSE value

\* The locals of ReadNextCsvValue (lines 233-238).
Field(nextValue, isQuoted, isQuoteModeOn) ==
    [nextValue |-> nextValue, isQuoted |-> isQuoted, isQuoteModeOn |-> isQuoteModeOn]

NewField == Field(<<>>, FALSE, FALSE)

Outcome(status, value, threw, p, f) ==
    [status |-> status, value |-> value, threw |-> threw, parser |-> p, field |-> f]

\* Lines 248, 268 and 276: nextValue.push(this.CurrentToken.Value || "").
push(f, tok) == [f EXCEPT !.nextValue = Append(@, OrEmpty(tok.Value))]

\* inQuoteMode with only Text tokens kept.
inQuoteModeTextOnly(f, tok) ==
    IF tok.Type = "Quote"
    THEN [f EXCEPT !.isQuoteModeOn = FALSE]
    ELSE IF tok.Type = "Text" THEN push(f, tok) ELSE f

\* Lines 243-251: the token tok read in quote-mode.
inQuoteMode(f, tok) ==
    IF tok.Type = "Quote"
    THEN [f EXCEPT !.isQuoteModeOn = FALSE]
    ELSE push(f, tok)

\* onQuote with no literal quote kept for a quote that follows a closing one.
onQuoteNoLiteral(f, tok) == [f EXCEPT !.isQuoted = TRUE, !.isQuoteModeOn = TRUE]

\* Lines 266-274: a Quote token read outside quote-mode.
onQuote(f, tok) ==
    IF f.isQuoted
    THEN [push(f, tok) EXCEPT !.isQuoteModeOn = TRUE]
    ELSE [f EXCEPT !.isQuoted = TRUE, !.isQuoteModeOn = TRUE]

\* endOfValue with an empty field returned as the empty text.
endOfValueNeverNull(f) == join(f.nextValue)

\* endOfValue with a quoted empty field returned as the empty text.
endOfValueQuotedEmpty(f) ==
    IF Len(f.nextValue) = 0 /\ ~f.isQuoted THEN Null ELSE join(f.nextValue)

\* Lines 262-265: the value of the field that just ended.
endOfValue(f) ==
    IF Len(f.nextValue) = 0 THEN Null ELSE join(f.nextValue)

\* Lines 240-281: one iteration of the while (true) loop once moveNext has
\* handed back m.  status is "continue", "return" (with value) or "throw"
\* (with threw).
dispatch(m, f) ==
    LET q == m.parser
        tok == CurrentToken(q)
    IN  IF m.threw # "none" THEN Outcome("throw", Null, m.threw, q, f)
        ELSE IF ~m.ok THEN Outcome("throw", Null, InternalError, q, f)
        ELSE IF f.isQuoteModeOn
        THEN Outcome("continue", Null, "none", q, inQuoteMode(f, tok))
        ELSE CASE tok.Type \in {"Delimiter", "LineSeparator", "EndOfFile"} ->
                    Outcome("return", endOfValue(f), "none", q, f)
               [] tok.Type = "Quote" ->
                    Outcome("continue", Null, "none", q, onQuote(f, tok))
               [] tok.Type = "Text" ->
                    Outcome("continue", Null, "none", q, push(f, tok))
               [] OTHER -> Outcome("throw", Null, tok.Type, q, f)

\* Lines 239-281: one iteration of the while (true) loop.
fieldIteration(p, f) == dispatch(moveNext(p), f)

\* What the last public call handed back: the call, the row ReadNextRow
\* returned (NullRow for null), the rows ReadToEnd returned, the error raised.
Result(op, row, rowList, threw) ==
    [op |-> op, row |-> row, rows |-> rowList, threw |-> threw]

NoResult == Result("none", NullRow, <<>>, "none")

\* A Parser with the call in progress on it: pc is "idle" (no call), "value"
\* (line 226, about to call ReadNextCsvValue) or "loop" (line 240, at the
\* head of the while (true) loop); f holds ReadNextCsvValue's locals, values
\* the fields ReadNextRow has collected, rowList the rows ReadToEnd has
\* collected, caller the public call in progress.
Machine(p, at, f, values, rowList, caller, res) ==
    [parser |-> p, pc |-> at, field |-> f, rowValues |-> values,
     rows |-> rowList, caller |-> caller, result |-> res]

IdleMachine(p) == Machine(p, "idle", NewField, <<>>, <<>>, "none", NoResult)

\* The public call returns (or raises): its frames are dropped.
return(m, res) == Machine(m.parser, "idle", NewField, <<>>, <<>>, "none", res)

\* Line 217: ReadNextRow starts to collect a row.
startRow(m) == [m EXCEPT !.pc = "value", !.rowValues = <<>>]

\* Lines 204-205 and 210: the head of ReadToEnd's loop.  The ReadNextRow
\* called at line 205 passes its own check of line 214, HasMoreRows having
\* just held at line 204.
readToEndLoop(m) ==
    IF HasMoreRows(m.parser)
    THEN startRow(m)
    ELSE return(m, Result("ReadToEnd", NullRow, m.rows, "none"))

\* returnRow with line 206 left out: ReadToEnd keeps every row it is handed.
returnRowKeepsAll(m, row) ==
    IF m.caller = "ReadNextRow"
    THEN return(m, Result("ReadNextRow", row, <<>>, "none"))
    ELSE readToEndLoop([m EXCEPT !.rows = Append(@, row)])

\* ReadNextRow hands row to its caller: to the user, or to line 205 of
\* ReadToEnd (lines 206-207).
returnRow(m, row) ==
    IF m.caller = "ReadNextRow"
    THEN return(m, Result("ReadNextRow", row, <<>>, "none"))
    ELSE readToEndLoop(
            IF HasMoreRows(m.parser) \/ row # NullRow
            THEN [m EXCEPT !.rows = Append(@, row)]
            ELSE m)

\* yieldValue with the check of lines 218-219 left out.
yieldValueNoSuppression(m, v) ==
    LET values == Append(m.rowValues, v)
        n == [m EXCEPT !.rowValues = values, !.field = NewField]
    IN  IF CurrentTokenType(m.parser) = "Delimiter"
        THEN [n EXCEPT !.pc = "value"]
        ELSE returnRow(n, values)

\* Lines 227-229 and 217-221: ReadNextCsvValue returned v.
yieldValue(m, v) ==
    LET values == Append(m.rowValues, v)
        n == [m EXCEPT !.rowValues = values, !.field = NewField]
    IN  IF CurrentTokenType(m.parser) = "Delimiter"
        THEN [n EXCEPT !.pc = "value"]
        ELSE IF ~HasMoreRows(m.parser) /\ Len(values) = 1 /\ values[1] = Null
        THEN returnRow(n, NullRow)
        ELSE returnRow(n, values)

\* Lines 226 and 233-238: ReadNextCsvValue up to its loop.
enterReadNextCsvValue(m) ==
    IF CurrentTokenType(m.parser) = "EndOfFile"
    THEN yieldValue(m, Null)
    ELSE [m EXCEPT !.pc = "loop", !.field = NewField]

\* The call in progress after one iteration of the loop ended as o.
proceed(m, o) ==
    LET n == [m EXCEPT !.parser = o.parser, !.field = o.field]
    IN  CASE o.status = "continue" -> n
          [] o.status = "return" -> yieldValue(n, o.value)
          [] OTHER -> return(n, Result(m.caller, NullRow, <<>>, o.threw))

\* Lines 239-281 in the call in progress: one iteration of the loop.
iterate(m) == proceed(m, fieldIteration(m.parser, m.field))

step(m) == IF m.pc = "value" THEN enterReadNextCsvValue(m) ELSE iterate(m)

\* The call in progress run to its return.
RECURSIVE run(_)
run(m) == IF m.pc = "idle" THEN m ELSE run(step(m))

\* Lines 213-217: ReadNextRow up to its first ReadNextCsvValue.
callReadNextRow(p) ==
    IF ~HasMoreRows(p)
    THEN return(IdleMachine(p), Result("ReadNextRow", NullRow, <<>>, "none"))
    ELSE startRow([IdleMachine(p) EXCEPT !.caller = "ReadNextRow"])

\* Lines 202-204: ReadToEnd up to its first ReadNextRow.
callReadToEnd(p) == readToEndLoop([IdleMachine(p) EXCEPT !.caller = "ReadToEnd"])

\* Line 313: parser.ReadNextRow() || [], or the error that escaped.
firstRow(res) ==
    IF res.threw # "none" THEN [threw |-> res.threw, value |-> <<>>]
    ELSE IF res.row = NullRow THEN [threw |-> "none", value |-> <<>>]
    ELSE [threw |-> "none", value |-> res.row]

\* Lines 305-317.  threw: the error that escaped; value: the row returned.
ParseSingleRow(singleRow, settings) ==
    IF singleRow = Null THEN [threw |-> "singleRow", value |-> <<>>]
    ELSE firstRow(run(callReadNextRow(NewParser(singleRow, settings, TRUE))).result)

\* Line 327: parser.ReadToEnd(), or the error that escaped.
allRows(res) ==
    IF res.threw # "none" THEN [threw |-> res.threw, value |-> <<>>]
    ELSE [threw |-> "none", value |-> res.rows]

\* Lines 319-331.  threw: the error that escaped; value: the rows returned.
Parse(csv, settings) ==
    IF csv = Null THEN [threw |-> "csv", value |-> <<>>]
    ELSE allRows(run(callReadToEnd(NewParser(csv, settings, TRUE))).result)

\* ------------------------------------------------------------------ Writer
\* value.includes(part)
includes(value, part) ==
    \E i \in 0..(Len(value) - Len(part)) : SubSeq(value, i + 1, i + Len(part)) = part

\* value.replace(new RegExp(quote, 'g'), quote + quote), for a quote
\* character that stands for itself in a regular expression, as the default
\* one does; the settings of this model keep the default quoting character.
RECURSIVE replace(_, _)
replace(value, quote) ==
    IF value = <<>> THEN <<>>
    ELSE (IF Head(value) = quote THEN <<quote, quote>> ELSE <<Head(value)>>)
         \o replace(Tail(value), quote)

\* WrapValueForCsvUsingMinimalMode with the quotes of the value left single.
WrapMinimalNoDoubling(value, settings) ==
    IF value = Null THEN Null
    ELSE IF Len(value) = 0 THEN value
    ELSE IF \/ includes(value, <<settings.QuotingCharacter>>)
            \/ includes(value, <<settings.FieldDelimiter>>)
            \/ includes(value, settings.RowDelimiter)
         THEN <<settings.QuotingCharacter>> \o value \o <<settings.QuotingCharacter>>
         ELSE value

\* WrapValueForCsvUsingMinimalMode with the row delimiter not looked for.
WrapMinimalNoRowDelimiter(value, settings) ==
    IF value = Null THEN Null
    ELSE IF Len(value) = 0 THEN value
    ELSE LET containsQuote == includes(value, <<settings.QuotingCharacter>>) IN
         IF containsQuote \/ includes(value, <<settings.FieldDelimiter>>)
         THEN <<settings.QuotingCharacter>>
              \o (IF containsQuote THEN replace(value, settings.QuotingCharacter) ELSE value)
              \o <<settings.QuotingCharacter>>
         ELSE value

\* Lines 437-463.
WrapValueForCsvUsingMinimalMode(value, settings) ==
    IF value = Null THEN Null
    ELSE IF Len(value) = 0 THEN value
    ELSE LET containsQuote == includes(value, <<settings.QuotingCharacter>>) IN
         IF \/ containsQuote
            \/ includes(value, <<settings.FieldDelimiter>>)
            \/ includes(value, settings.RowDelimiter)
         THEN <<settings.QuotingCharacter>>
              \o (IF containsQuote THEN replace(value, settings.QuotingCharacter) ELSE value)
              \o <<settings.QuotingCharacter>>
         ELSE value

\* Lines 465-474.
WrapValueForCsvUsingQuoteAllMode(value, settings) ==
    LET replaced == IF value # Null /\ Len(value) > 0
                    THEN replace(value, settings.QuotingCharacter)
                    ELSE <<>>
    IN  <<settings.QuotingCharacter>> \o replaced \o <<settings.QuotingCharacter>>

\* Lines 426-435.  threw: the error for a quoting mode that is not implemented.
WrapValueForCsv(value, settings) ==
    CASE settings.QuotingMode = Minimal ->
            [threw |-> "none", value |-> WrapValueForCsvUsingMinimalMode(value, settings)]
      [] settings.QuotingMode = QuoteAll ->
            [threw |-> "none", value |-> WrapValueForCsvUsingQuoteAllMode(value, settings)]
      [] OTHER ->
            [threw |-> "Quoting mode is not yet implemented.", value |-> Null]

\* The Writer object: its settings, every text handed to this.Writer.write
\* so far, in order, and LineAlreadyStarted.
NewWriter(settings) ==
    [Settings |-> settings, written |-> <<>>, LineAlreadyStarted |-> FALSE]

\* WriteRawLine with LineAlreadyStarted left as it was.
WriteRawLineNoReset(w, line) ==
    [w EXCEPT !.written = @ \o <<line, w.Settings.RowDelimiter>>]

\* Lines 364-371, for a line that is not null.
WriteRawLine(w, line) ==
    [w EXCEPT !.written = @ \o <<line, w.Settings.RowDelimiter>>,
              !.LineAlreadyStarted = FALSE]

\* Lines 393-399.
WriteRawValue(w, value) ==
    [w EXCEPT !.written = @ \o (IF w.LineAlreadyStarted
                                THEN <<(<<w.Settings.FieldDelimiter>>)>>
                                ELSE <<>>)
                            \o <<OrEmpty(value)>>,
              !.LineAlreadyStarted = TRUE]

\* Lines 401-403.
Write(w, value) == WriteRawValue(w, WrapValueForCsv(value, w.Settings).value)

\* Lines 377-378: this.Write(value) for each value, in order.
RECURSIVE WriteEach(_, _)
WriteEach(w, values) ==
    IF values = <<>> THEN w ELSE WriteEach(Write(w, Head(values)), Tail(values))

\* Lines 373-381.
WriteLine(w, values) == WriteRawLine(WriteEach(w, values), <<>>)

\* Lines 405-416.  formatted: what formattable.toString(format, culture)
\* gives, Null for a null formattable.
WriteFormattable(w, formatted) ==
    IF formatted = Null THEN WriteRawValue(w, Null) ELSE Write(w, formatted)

\* Lines 387-388.
RECURSIVE WriteEachFormattable(_, _)
WriteEachFormattable(w, values) ==
    IF values = <<>> THEN w
    ELSE WriteEachFormattable(WriteFormattable(w, Head(values)), Tail(values))

\* Lines 383-391.
WriteLineFormattable(w, values) == WriteRawLine(WriteEachFormattable(w, values), <<>>)

\* The text the sink holds: the texts written, concatenated.
SinkText(w) == join(w.written)

\* ------------------------------------------------------------------- state
VARIABLES
    parser,      \* the Parser object
    pc,          \* where the call in progress on the Parser stands
    field,       \* ReadNextCsvValue's locals
    rowValues,   \* the fields ReadNextRow has collected
    rows,        \* the rows ReadToEnd has collected
    caller,      \* the public call in progress
    result,      \* what the last public call on the Parser handed back
    lexer,       \* a Lexer's generator with its settings and reader
    yielded,     \* the tokens pulled from it so far, and the error it raised
    input,       \* the argument of a static call
    wrapped,     \* what WrapValueForCsv returned for it
    parsed,      \* what Parse / ParseSingleRow returned
    writer,      \* the Writer object
    calls        \* the calls made on the Writer, in order

parserVars == <<parser, pc, field, rowValues, rows, caller, result>>
lexerVars == <<lexer, yielded>>
staticVars == <<input, wrapped, parsed>>
writerVars == <<writer, calls>>
vars == <<parserVars, lexerVars, staticVars, writerVars>>

\* The row delimiters the Lexer accepts that the inputs are drawn from: the
\* default and a one-character one.
ValidRowDelimiters == {<<CR, LF>>, <<LF>>}

\* The row delimiters a Lexer is constructed with: the valid ones and the
\* two invalid shapes (empty, three characters).
RowDelimiters == ValidRowDelimiters \cup {<<>>, <<CR, LF, LF>>}

WithRowDelimiter(rd) == [ParseSettings EXCEPT !.RowDelimiter = rd]

\* Not yet returned.
Unset == <<"unset">>
NotParsed == [op |-> "none", threw |-> "none", value |-> <<>>]

\* The parts of the state a specification does not use stay as constructed.
NoParser ==
    /\ parser = NewParser(<<>>, ParseSettings, TRUE)
    /\ pc = "idle"
    /\ field = NewField
    /\ rowValues = <<>>
    /\ rows = <<>>
    /\ caller = "none"
    /\ result = NoResult

NoLexer ==
    /\ lexer = [Settings |-> ParseSettings, reader |-> TextReader(<<>>), gen |-> NewGenerator]
    /\ yielded = [tokens |-> <<>>, threw |-> "none"]

NoStatic ==
    /\ input = [value |-> Null, settings |-> ParseSettings]
    /\ wrapped = Unset
    /\ parsed = NotParsed

NoWriter ==
    /\ writer = NewWriter(ParseSettings)
    /\ calls = <<>>

\* ------------------------------------------------ the Parser, step by step
machine == Machine(parser, pc, field, rowValues, rows, caller, result)

Becomes(m) ==
    /\ parser' = m.parser
    /\ pc' = m.pc
    /\ field' = m.field
    /\ rowValues' = m.rowValues
    /\ rows' = m.rows
    /\ caller' = m.caller
    /\ result' = m.result
    /\ UNCHANGED <<lexerVars, staticVars, writerVars>>

\* new Parser(csv, settings) and new Parser(reader, settings).
Init ==
    /\ \E csv \in TextsUpTo(Alphabet, MaxLen), rd \in RowDelimiters, owned \in BOOLEAN :
        /\ parser = NewParser(csv, WithRowDelimiter(rd), owned)
        /\ pc = "idle"
        /\ field = NewField
        /\ rowValues = <<>>
        /\ rows = <<>>
        /\ caller = "none"
        /\ result = NoResult
    /\ NoLexer /\ NoStatic /\ NoWriter

ReadNextRow == pc = "idle" /\ Becomes(callReadNextRow(parser))

ReadToEnd == pc = "idle" /\ Becomes(callReadToEnd(parser))

DisposeParser ==
    /\ pc = "idle"
    /\ parser' = Dispose(parser)
    /\ result' = Result("Dispose", NullRow, <<>>, "none")
    /\ UNCHANGED <<pc, field, rowValues, rows, caller>>
    /\ UNCHANGED <<lexerVars, staticVars, writerVars>>

ReadNextCsvValue == pc = "value" /\ Becomes(enterReadNextCsvValue(machine))

ReadNextCsvValueLoop == pc = "loop" /\ Becomes(iterate(machine))

Next ==
    \/ ReadNextRow
    \/ ReadToEnd
    \/ DisposeParser
    \/ ReadNextCsvValue
    \/ ReadNextCsvValueLoop

Spec == Init /\ [][Next]_vars

\* new Parser(csv, settings) with a row delimiter the Lexer accepts.
InitRunning ==
    /\ \E csv \in TextsUpTo(Alphabet, MaxLen), rd \in ValidRowDelimiters :
        /\ parser = NewParser(csv, WithRowDelimiter(rd), TRUE)
        /\ pc = "idle"
        /\ field = NewField
        /\ rowValues = <<>>
        /\ rows = <<>>
        /\ caller = "none"
        /\ result = NoResult
    /\ NoLexer /\ NoStatic /\ NoWriter

\* The code is synchronous: a call in progress runs on, statement after
\* statement, until it returns or raises.  This is WF_vars(ReadNextCsvValue)
\* and WF_vars(ReadNextCsvValueLoop) with ENABLED written out: each of the
\* two steps is enabled exactly at its pc and always changes the state.
SpecRunning ==
    /\ InitRunning
    /\ [][Next]_vars
    /\ ([]<>(pc # "value") \/ []<><<ReadNextCsvValue>>_vars)
    /\ ([]<>(pc # "loop") \/ []<><<ReadNextCsvValueLoop>>_vars)

\* ------------------------------------------------- the Lexer, pull by pull
\* lexer.scan(input), not yet pulled.
InitScan ==
    /\ \E csv \in TextsUpTo(Alphabet, MaxLen), rd \in RowDelimiters :
        lexer = [Settings |-> WithRowDelimiter(rd), reader |-> TextReader(csv),
                 gen |-> NewGenerator]
    /\ yielded = [tokens |-> <<>>, threw |-> "none"]
    /\ NoParser /\ NoStatic /\ NoWriter

\* The generator after the pull p.
pulled(l, p) == [l EXCEPT !.reader = p.reader, !.gen = p.gen]

\* The tokens seen after the pull p.
seen(y, p) ==
    IF p.threw # "none" THEN [y EXCEPT !.threw = p.threw]
    ELSE IF p.done THEN y
    ELSE [y EXCEPT !.tokens = Append(@, p.value)]

\* One next() on the generator, until it is done.
LexerNext ==
    /\ lexer.gen.pc # "done"
    /\ lexer' = pulled(lexer, scanReader(lexer.Settings, lexer.reader, lexer.gen))
    /\ yielded' = seen(yielded, scanReader(lexer.Settings, lexer.reader, lexer.gen))
    /\ UNCHANGED <<parserVars, staticVars, writerVars>>

NextScan == LexerNext

SpecScan == InitScan /\ [][NextScan]_vars

\* ---------------------------------------------------- Parse, ParseSingleRow
InitParse ==
    /\ \E csv \in TextsUpTo(Alphabet, MaxLen), rd \in ValidRowDelimiters :
        input = [value |-> csv, settings |-> WithRowDelimiter(rd)]
    /\ wrapped = Unset
    /\ parsed = NotParsed
    /\ NoParser /\ NoLexer /\ NoWriter

Returned(op, r) == [op |-> op, threw |-> r.threw, value |-> r.value]

ParseCall ==
    /\ parsed = NotParsed
    /\ parsed' = Returned("Parse", Parse(input.value, input.settings))
    /\ UNCHANGED <<input, wrapped, parserVars, lexerVars, writerVars>>

ParseSingleRowCall ==
    /\ parsed = NotParsed
    /\ parsed' = Returned("ParseSingleRow", ParseSingleRow(input.value, input.settings))
    /\ UNCHANGED <<input, wrapped, parserVars, lexerVars, writerVars>>

NextParse == ParseCall \/ ParseSingleRowCall

SpecParse == InitParse /\ [][NextParse]_vars

\* ------------------------------------- WrapValueForCsv, then ParseSingleRow
QuotingModes == {Minimal, QuoteAll}

InitWrap ==
    /\ \E value \in TextsUpTo(Alphabet, MaxText) \cup {Null},
          rd \in ValidRowDelimiters, mode \in QuotingModes :
        input = [value |-> value,
                 settings |-> [WithRowDelimiter(rd) EXCEPT !.QuotingMode = mode]]
    /\ wrapped = Unset
    /\ parsed = NotParsed
    /\ NoParser /\ NoLexer /\ NoWriter

WrapValueForCsvCall ==
    /\ wrapped = Unset
    /\ wrapped' = WrapValueForCsv(input.value, input.settings).value
    /\ UNCHANGED <<input, parsed, parserVars, lexerVars, writerVars>>

ParseWrappedCall ==
    /\ wrapped # Unset
    /\ parsed = NotParsed
    /\ parsed' = Returned("ParseSingleRow", ParseSingleRow(wrapped, input.settings))
    /\ UNCHANGED <<input, wrapped, parserVars, lexerVars, writerVars>>

NextWrap == WrapValueForCsvCall \/ ParseWrappedCall

SpecWrap == InitWrap /\ [][NextWrap]_vars

\* -------------------------------------------------------------- the Writer
\* The values handed to the Writer.
WriterValues == {<<>>, <<Ordinary>>, <<DoubleQuote>>, <<CR, LF>>, <<Ordinary, Comma, Ordinary>>}

\* The rows handed to WriteLine and WriteLineFormattable: as many values,
\* absent ones among them, as still fit the sink.
RowsUpTo(n) == UNION {[1..k -> WriterValues \cup {Null}] : k \in 0..n}

InitWriter ==
    /\ \E mode \in QuotingModes :
        writer = NewWriter([ParseSettings EXCEPT !.QuotingMode = mode])
    /\ calls = <<>>
    /\ parsed = NotParsed
    /\ input = [value |-> Null, settings |-> ParseSettings]
    /\ wrapped = Unset
    /\ NoParser /\ NoLexer

Call(op, arg) == [op |-> op, arg |-> arg]

\* A call on the Writer whose writes still fit the sink; w is the Writer
\* after the call.
Calls(w, op, arg) ==
    /\ Len(writer.written) < MaxWrites
    /\ Len(w.written) <= MaxWrites
    /\ writer' = w
    /\ calls' = Append(calls, Call(op, arg))
    /\ parsed' = NotParsed
    /\ UNCHANGED <<input, wrapped, parserVars, lexerVars>>

WriteCall ==
    \E value \in WriterValues \cup {Null} :
        Calls(Write(writer, value), "Write", <<value>>)

WriteLineCall ==
    \E values \in RowsUpTo((MaxWrites - Len(writer.written)) \div 2) :
        Calls(WriteLine(writer, values), "WriteLine", values)

WriteRawLineCall ==
    \E line \in {<<>>, <<Ordinary>>} :
        Calls(WriteRawLine(writer, line), "WriteRawLine", <<line>>)

WriteFormattableCall ==
    \E formatted \in WriterValues \cup {Null} :
        Calls(WriteFormattable(writer, formatted), "WriteFormattable", <<formatted>>)

WriteLineFormattableCall ==
    \E values \in RowsUpTo((MaxWrites - Len(writer.written)) \div 2) :
        Calls(WriteLineFormattable(writer, values), "WriteLineFormattable", values)

\* Parser.Parse on the text the sink holds.
ParseWrittenCall ==
    /\ calls # <<>>
    /\ parsed = NotParsed
    /\ parsed' = Returned("Parse", Parse(SinkText(writer), writer.Settings))
    /\ UNCHANGED <<writer, calls, input, wrapped, parserVars, lexerVars>>

NextWriter ==
    \/ WriteCall
    \/ WriteLineCall
    \/ WriteRawLineCall
    \/ WriteFormattableCall
    \/ WriteLineFormattableCall
    \/ ParseWrittenCall

SpecWriter == InitWriter /\ [][NextWriter]_vars

\* ------------------------------------------------------------------ claims
\* What the claims expect, said without the operators of the model.
HasChar(t, c) == \E i \in 1..Len(t) : t[i] = c

HasPart(t, part) ==
    \E i \in 1..(Len(t) - Len(part) + 1) : \A j \in 1..Len(part) : t[i + j - 1] = part[j]

EndsWith(t, part) ==
    /\ Len(t) >= Len(part)
    /\ \A j \in 1..Len(part) : t[Len(t) - Len(part) + j] = part[j]

\* t with every character c written twice.
RECURSIVE Doubling(_, _)
Doubling(t, c) ==
    IF Len(t) = 0 THEN <<>>
    ELSE Doubling(SubSeq(t, 1, Len(t) - 1), c)
         \o (IF t[Len(t)] = c THEN <<c, c>> ELSE <<t[Len(t)]>>)

Quoted(t) == <<DoubleQuote>> \o Doubling(t, DoubleQuote) \o <<DoubleQuote>>

MinimalDefaults == input.settings = ParseSettings

WrappedAndParsed == wrapped # Unset /\ parsed.op = "ParseSingleRow"

\* C1 as claimed: under Minimal mode with default settings, for every text t,
\* ParseSingleRow(WrapValueForCsv(t, settings)) returns the one-field row [t].
\* The empty text refutes it: it is written as the empty text, which parses
\* to no field at all.
C1_RoundTripOfEveryText ==
    (MinimalDefaults /\ input.value # Null /\ WrappedAndParsed)
        => (parsed.threw = "none" /\ parsed.value = <<input.value>>)

\* C1 amended: under Minimal mode with default settings, for every non-empty
\* text t, ParseSingleRow(WrapValueForCsv(t, settings)) returns the one-field
\* row [t].
C1_RoundTripOfNonEmptyText ==
    (MinimalDefaults /\ input.value # Null /\ Len(input.value) > 0 /\ WrappedAndParsed)
        => (parsed.threw = "none" /\ parsed.value = <<input.value>>)

\* A text with a quote, a delimiter and a row delimiter's first character
\* went through the round trip.
C1_Witness ==
    /\ MinimalDefaults
    /\ WrappedAndParsed
    /\ input.value = <<DoubleQuote, Comma, CR>>
    /\ wrapped = <<DoubleQuote, DoubleQuote, DoubleQuote, Comma, CR, DoubleQuote>>
    /\ parsed.value = <<input.value>>

\* C10: in Minimal mode WrapValueForCsv returns absent for an absent value,
\* the empty text for the empty text, the value in quotes with its quotes
\* doubled exactly when it holds the quote character, the field delimiter or
\* the whole row delimiter, and the value itself otherwise.
C10_MinimalWrapping ==
    (input.settings.QuotingMode = Minimal /\ wrapped # Unset) =>
        LET v == input.value
            needsQuotes ==
                \/ HasChar(v, input.settings.QuotingCharacter)
                \/ HasChar(v, input.settings.FieldDelimiter)
                \/ HasPart(v, input.settings.RowDelimiter)
        IN  IF v = Null THEN wrapped = Null
            ELSE IF v = <<>> THEN wrapped = <<>>
            ELSE IF needsQuotes THEN wrapped = Quoted(v)
            ELSE wrapped = v

\* A value holding the row delimiter and nothing else special was wrapped.
C10_Witness ==
    /\ input.settings.QuotingMode = Minimal
    /\ input.value = <<Ordinary, CR, LF>>
    /\ input.settings.RowDelimiter = <<CR, LF>>
    /\ wrapped = <<DoubleQuote, Ordinary, CR, LF, DoubleQuote>>

ParseReturned == parsed.op = "Parse"

\* C3: Parse("") returns no row, and for every input s without quotes whose
\* last row holds at least one character, Parse(s + rowDelimiter) returns
\* the rows of Parse(s); "a,b\r\n" gives the one row ["a","b"].
C3_TrailingRowSuppression ==
    /\ Parse(<<"a", Comma, "b", CR, LF>>, ParseSettings)
            = [threw |-> "none", value |-> << <<(<<"a">>), (<<"b">>)>> >>]
    /\ ParseReturned =>
        LET s == input.value
            rd == input.settings.RowDelimiter
        IN  /\ s = <<>> => (parsed.threw = "none" /\ parsed.value = <<>>)
            /\ (s # <<>> /\ ~HasChar(s, DoubleQuote) /\ ~EndsWith(s, rd))
                  => Returned("Parse", Parse(s \o rd, input.settings)) = parsed

\* "a,a" was parsed to one row, which "a,a\r\n" gives too.
C3_Witness ==
    /\ ParseReturned
    /\ input.value = <<Ordinary, Comma, Ordinary>>
    /\ input.settings = ParseSettings
    /\ parsed.value = << <<(<<Ordinary>>), (<<Ordinary>>)>> >>
    /\ Parse(<<Ordinary, Comma, Ordinary, CR, LF>>, ParseSettings).value = parsed.value

\* The fields of the text s as written, row by row: s cut at every field
\* delimiter and every row delimiter rd that stands outside quotes, a quote
\* character opening or closing the quotes.  The piece and the row being read
\* are handed on; i is the next character.
RECURSIVE RawRows(_, _, _, _, _, _)
RawRows(s, rd, i, inQuotes, piece, row) ==
    IF i > Len(s) THEN << Append(row, piece) >>
    ELSE IF s[i] = DoubleQuote
    THEN RawRows(s, rd, i + 1, ~inQuotes, Append(piece, s[i]), row)
    ELSE IF s[i] = Comma /\ ~inQuotes
    THEN RawRows(s, rd, i + 1, inQuotes, <<>>, Append(row, piece))
    ELSE IF i + Len(rd) - 1 <= Len(s) /\ SubSeq(s, i, i + Len(rd) - 1) = rd
    THEN IF inQuotes
         THEN RawRows(s, rd, i + Len(rd), inQuotes, piece \o rd, row)
         ELSE << Append(row, piece) >> \o RawRows(s, rd, i + Len(rd), inQuotes, <<>>, <<>>)
    ELSE RawRows(s, rd, i + 1, inQuotes, Append(piece, s[i]), row)

\* C6: a row with n field delimiters outside quotes has exactly n + 1
\* fields, a field with no content is absent (never the empty text), and
\* Parse(",,") is the one row [null, null, null].
C6_FieldCounting ==
    (ParseReturned /\ parsed.threw = "none") =>
        LET raw == RawRows(input.value, input.settings.RowDelimiter, 1, FALSE, <<>>, <<>>)
            got == parsed.value
        IN  /\ Len(got) \in {Len(raw) - 1, Len(raw)}
            /\ Len(got) = Len(raw) - 1 => Len(raw[Len(raw)]) = 1
            /\ \A k \in 1..Len(got) :
                /\ Len(got[k]) = Len(raw[k])
                /\ \A j \in 1..Len(got[k]) :
                    /\ got[k][j] # <<>>
                    /\ raw[k][j] = <<>> => got[k][j] = Null
            /\ input.value = <<Comma, Comma>> => got = << <<Null, Null, Null>> >>

\* ",," was parsed to one row of three absent fields.
C6_Witness ==
    /\ ParseReturned
    /\ input.value = <<Comma, Comma>>
    /\ input.settings = ParseSettings
    /\ parsed = [op |-> "Parse", threw |-> "none", value |-> << <<Null, Null, Null>> >>]

\* The values of a row, each in quotes with its quotes doubled, joined by
\* the field delimiter.
RECURSIVE QuotedRow(_)
QuotedRow(values) ==
    IF Len(values) = 0 THEN <<>>
    ELSE IF Len(values) = 1 THEN Quoted(values[1])
    ELSE QuotedRow(SubSeq(values, 1, Len(values) - 1))
         \o <<Comma>> \o Quoted(values[Len(values)])

\* One WriteLine call, with at least one value, is all that was made on a
\* QuoteAll Writer.
OneQuoteAllLine ==
    /\ writer.Settings.QuotingMode = QuoteAll
    /\ Len(calls) = 1
    /\ calls[1].op = "WriteLine"
    /\ Len(calls[1].arg) > 0
    /\ \A i \in 1..Len(calls[1].arg) : calls[1].arg[i] # Null

\* C2: under QuoteAll with default settings, WriteLine(values) writes each
\* value in quotes, joined by the delimiter and ended by the row delimiter,
\* and Parse of that text returns the one row of the values written;
\* ["a,b", ""] is written as "a,b","" CR LF and parses back to ["a,b", ""].
C2_QuoteAllRowRoundTrip ==
    OneQuoteAllLine =>
        /\ SinkText(writer) = QuotedRow(calls[1].arg) \o <<CR, LF>>
        /\ ParseReturned =>
            (parsed.threw = "none" /\ parsed.value = <<calls[1].arg>>)

\* C4: in a quoted field, a Quote token right after the Quote token that
\* closed the quoted region adds exactly one literal quote to the content
\* and re-enters quote-mode; "a""b" in quotes parses to the one field a"b.
C4_DoubledQuote ==
    /\ Parse(<<DoubleQuote, "a", DoubleQuote, DoubleQuote, "b", DoubleQuote>>, ParseSettings)
            = [threw |-> "none", value |-> << <<(<<"a", DoubleQuote, "b">>)>> >>]
    /\ [][(/\ pc = "loop"
           /\ field.isQuoted
           /\ ~field.isQuoteModeOn
           /\ parser.current.Type = "Quote"
           /\ parser'.current.Type = "Quote")
          => (/\ pc' = "loop"
              /\ field' = [field EXCEPT !.nextValue = Append(@, <<DoubleQuote>>),
                                        !.isQuoteModeOn = TRUE])]_vars

\* A doubled quote was just read: quote-mode is on again and the content
\* ends with the literal quote.
C4_Witness ==
    /\ pc = "loop"
    /\ field.isQuoted
    /\ field.isQuoteModeOn
    /\ parser.current.Type = "Quote"
    /\ Len(field.nextValue) = 2
    /\ field.nextValue[2] = <<DoubleQuote>>

ValidRowDelimiter(settings) ==
    Len(settings.RowDelimiter) >= 1 /\ Len(settings.RowDelimiter) <= 2

\* C7: for every input and valid settings, a Parser that reads this Lexer's
\* tokens never raises the internal-consistency error.
C7_NoInternalError ==
    (ValidRowDelimiter(parser.Settings) /\ parser.tokens = "scanReader")
        => result.threw # InternalError

ConfigurationErrors ==
    {"Csv row delimiter cannot be null.", "Csv row delimiter too long, maximum length: 2."}

\* C8: with an empty row delimiter or one longer than 2 characters,
\* constructing the Parser does not fail and nothing fails before the first
\* pull of the Lexer's tokens; that pull fails with a configuration error,
\* no token is produced (no character is read, this.current stays unset) and
\* no field or row is ever returned.
C8_InvalidRowDelimiter ==
    /\ [](~ValidRowDelimiter(parser.Settings) =>
            /\ rowValues = <<>>
            /\ rows = <<>>
            /\ result.row = NullRow
            /\ result.rows = <<>>
            /\ parser.reader.position = 0
            /\ parser.current.Type \in {"NotSet", "EndOfFile"}
            /\ (parser.tokens = "scanReader" /\ parser.gen.pc = "start")
                  => result.threw = "none")
    /\ [][(/\ ~ValidRowDelimiter(parser.Settings)
           /\ parser.gen.pc = "start"
           /\ parser'.gen.pc # "start")
          => (/\ result'.threw \in ConfigurationErrors
              /\ pc' = "idle"
              /\ parser'.current = NotSetToken
              /\ parser'.reader = parser.reader)]_vars

\* The first pull of a Parser with a three-character row delimiter failed.
C8_Witness ==
    /\ Len(parser.Settings.RowDelimiter) = 3
    /\ Len(parser.reader.content) > 0
    /\ parser.gen.pc = "done"
    /\ parser.current = NotSetToken
    /\ result.op = "ReadToEnd"
    /\ result.threw = "Csv row delimiter too long, maximum length: 2."

\* C9: HasMoreRows is true exactly when the current token is not EndOfFile;
\* once false it stays false under every later step, and a ReadNextRow call
\* made then returns absent and pulls no token.
C9_HasMoreRowsStaysFalse ==
    /\ [](HasMoreRows(parser) <=> parser.current.Type # "EndOfFile")
    /\ [][/\ parser.current.Type = "EndOfFile" => parser'.current.Type = "EndOfFile"
          /\ (parser.current.Type = "EndOfFile" /\ ReadNextRow)
                => (/\ result' = Result("ReadNextRow", NullRow, <<>>, "none")
                    /\ pc' = "idle"
                    /\ parser' = parser)]_vars

\* ReadNextRow was called on a disposed Parser that had read its input to the
\* end, and returned absent.
C9_Witness ==
    /\ parser.current.Type = "EndOfFile"
    /\ parser.tokens = "empty"
    /\ parser.reader.position > 0
    /\ result = Result("ReadNextRow", NullRow, <<>>, "none")

\* The length of the text a token carries.
TokenLen(tok) == IF tok.Value = Null THEN 0 ELSE Len(tok.Value)

\* The number of characters the tokens before the k-th carry.
RECURSIVE Before(_, _)
Before(tokens, k) ==
    IF k <= 1 THEN 0 ELSE Before(tokens, k - 1) + TokenLen(tokens[k - 1])

EndOfFileYielded == lexer.gen.pc \in {"yield143", "done"} /\ yielded.threw = "none"

\* C5: with a 2-character row delimiter, an occurrence of its first character
\* that its second character does not follow gives no LineSeparator token
\* and is a literal character of the Text token around it; "a\rb,c" parses
\* to the one row ["a\rb","c"] under the row delimiter "\r\n".
C5_LoneFirstCharacterIsText ==
    /\ Parse(<<"a", CR, "b", Comma, "c">>, ParseSettings)
            = [threw |-> "none", value |-> << <<(<<"a", CR, "b">>), (<<"c">>)>> >>]
    /\ (EndOfFileYielded /\ Len(lexer.Settings.RowDelimiter) = 2) =>
        LET s == lexer.reader.content
            rd == lexer.Settings.RowDelimiter
            tokens == yielded.tokens
        IN  /\ \A i \in 1..Len(s) :
                (s[i] = rd[1] /\ (i = Len(s) \/ s[i + 1] # rd[2])) =>
                    \E k \in 1..Len(tokens) :
                        /\ tokens[k].Type = "Text"
                        /\ Before(tokens, k) < i
                        /\ i <= Before(tokens, k) + TokenLen(tokens[k])
                        /\ tokens[k].Value[i - Before(tokens, k)] = rd[1]
            /\ \A k \in 1..Len(tokens) :
                tokens[k].Type = "LineSeparator" =>
                    SubSeq(s, Before(tokens, k) + 1, Before(tokens, k) + 2) = rd

\* "a\ra" was scanned to one Text token and EndOfFile.
C5_Witness ==
    /\ EndOfFileYielded
    /\ lexer.Settings.RowDelimiter = <<CR, LF>>
    /\ lexer.reader.content = <<Ordinary, CR, Ordinary>>
    /\ yielded.tokens = <<Token("Text", <<Ordinary, CR, Ordinary>>), Token("EndOfFile", Null)>>

\* The texts handed to the sink that are fields: not the field delimiter,
\* not the row delimiter, and not the raw line written right before it.
RECURSIVE FieldsWritten(_, _, _)
FieldsWritten(texts, settings, k) ==
    IF k > Len(texts) THEN <<>>
    ELSE IF \/ texts[k] = <<settings.FieldDelimiter>>
            \/ texts[k] = settings.RowDelimiter
            \/ (k < Len(texts) /\ texts[k + 1] = settings.RowDelimiter)
         THEN FieldsWritten(texts, settings, k + 1)
         ELSE <<texts[k]>> \o FieldsWritten(texts, settings, k + 1)

\* The values handed to Write, WriteLine, WriteFormattable and
\* WriteLineFormattable, in the order of the calls.
RECURSIVE ValuesHanded(_)
ValuesHanded(cs) ==
    IF cs = <<>> THEN <<>>
    ELSE (IF Head(cs).op = "WriteRawLine" THEN <<>> ELSE Head(cs).arg)
         \o ValuesHanded(Tail(cs))

\* Each value in quotes with its quotes doubled, an absent one as two quotes.
RECURSIVE EachQuoted(_)
EachQuoted(values) ==
    IF values = <<>> THEN <<>>
    ELSE <<Quoted(IF Head(values) = Null THEN <<>> ELSE Head(values))>>
         \o EachQuoted(Tail(values))

\* C11: in QuoteAll mode the fields the Writer hands to the sink are, in
\* order, the values handed to Write, WriteLine, WriteFormattable and
\* WriteLineFormattable, each in quotes with its quotes doubled, an absent
\* value as two quote characters.
C11_QuoteAllWrapsEveryField ==
    writer.Settings.QuotingMode = QuoteAll =>
        FieldsWritten(writer.written, writer.Settings, 1) = EachQuoted(ValuesHanded(calls))

\* The k-th text handed to the sink is a field.
IsField(texts, settings, k) ==
    /\ texts[k] # <<settings.FieldDelimiter>>
    /\ texts[k] # settings.RowDelimiter
    /\ ~(k < Len(texts) /\ texts[k + 1] = settings.RowDelimiter)

\* A field was handed to the sink before the k-th text and no row delimiter
\* since.
FieldSinceRowDelimiter(texts, settings, k) ==
    \E j \in 1..(k - 1) :
        /\ IsField(texts, settings, j)
        /\ \A i \in (j + 1)..(k - 1) : texts[i] # settings.RowDelimiter

\* C12: among the texts a Writer hands to the sink, a field has the field
\* delimiter right before it exactly when a field was written before it
\* since the last row delimiter (or since construction); the delimiter is
\* written only right before a field, so the first write of a line is never
\* the delimiter and no delimiter write is followed by the row delimiter;
\* the line is started exactly when the last write is not a row delimiter.
C12_DelimiterPlacement ==
    LET texts == writer.written
        settings == writer.Settings
        delimiter == <<settings.FieldDelimiter>>
    IN  /\ \A k \in 1..Len(texts) :
            IsField(texts, settings, k) =>
                ((k > 1 /\ texts[k - 1] = delimiter)
                    <=> FieldSinceRowDelimiter(texts, settings, k))
        /\ \A k \in 1..Len(texts) :
            texts[k] = delimiter =>
                /\ k < Len(texts)
                /\ IsField(texts, settings, k + 1)
                /\ k > 1
                /\ texts[k - 1] # settings.RowDelimiter
        /\ writer.LineAlreadyStarted
                <=> (texts # <<>> /\ texts[Len(texts)] # settings.RowDelimiter)

\* After a raw line, two fields were written: the first follows the row
\* delimiter with no delimiter, the second has the delimiter before it.
C12_Witness ==
    /\ Len(calls) = 3
    /\ calls[1].op = "WriteRawLine"
    /\ writer.written = <<(<<>>), writer.Settings.RowDelimiter,
                          (<<Ordinary>>), (<<Comma>>), (<<Ordinary>>)>>
    /\ writer.LineAlreadyStarted

\* ReadNextRow called again and again while HasMoreRows holds: the rows it
\* returned that are not absent, in order, or the error one of the calls
\* raised.
RECURSIVE RepeatReadNextRow(_, _)
RECURSIVE CollectRow(_, _)
CollectRow(m, collected) ==
    IF m.result.threw # "none" THEN [threw |-> m.result.threw, value |-> <<>>]
    ELSE RepeatReadNextRow(m.parser,
            IF m.result.row = NullRow THEN collected ELSE Append(collected, m.result.row))

RepeatReadNextRow(p, collected) ==
    IF ~HasMoreRows(p) THEN [threw |-> "none", value |-> collected]
    ELSE CollectRow(run(callReadNextRow(p)), collected)

\* C13: called on a Parser in any state, ReadToEnd returns the rows that
\* ReadNextRow, called until HasMoreRows is false, returns and that are not
\* absent, in the same order (and raises what that would raise); the list
\* ReadToEnd returns holds no absent row.
C13_ReadToEndIsRepeatedReadNextRow ==
    /\ pc = "idle" =>
            allRows(run(callReadToEnd(parser)).result) = RepeatReadNextRow(parser, <<>>)
    /\ \A i \in 1..Len(result.rows) : result.rows[i] # NullRow
    /\ \A i \in 1..Len(rows) : rows[i] # NullRow

\* ReadToEnd returned two rows of an input that ends with the row delimiter.
C13_Witness ==
    /\ pc = "idle"
    /\ result.op = "ReadToEnd"
    /\ result.threw = "none"
    /\ Len(result.rows) = 2
    /\ EndsWith(parser.reader.content, parser.Settings.RowDelimiter)
    /\ parser.tokens = "scanReader"

\* C14: in every state of the Parser, before, between and after reads,
\* Dispose does not raise, drops the token sequence, releases the owned
\* reader and leaves the current token and the reader as they were; a
\* Dispose of a disposed Parser changes nothing, so any number of calls
\* leaves the state one call leaves.
C14_DisposeIdempotent ==
    /\ [](Dispose(Dispose(parser)) = Dispose(parser))
    /\ [][DisposeParser =>
            /\ result'.threw = "none"
            /\ pc' = "idle"
            /\ parser'.tokens = "empty"
            /\ ~parser'.OwnedReader
            /\ parser'.current = parser.current
            /\ parser'.reader = parser.reader
            /\ parser'.Settings = parser.Settings
            /\ (parser.tokens = "empty" => parser' = parser)]_vars

\* Dispose returned on a Parser that had read part of its input.
C14_Witness ==
    /\ result.op = "Dispose"
    /\ parser.tokens = "empty"
    /\ ~parser.OwnedReader
    /\ parser.current.Type = "LineSeparator"
    /\ parser.reader.position < Len(parser.reader.content)

\* An iteration of ReadNextCsvValue's loop pulls a Quote token outside
\* quote-mode into a field that holds bare text and has seen no quote.
QuoteAfterBareText ==
    /\ ReadNextCsvValueLoop
    /\ ~field.isQuoteModeOn
    /\ ~field.isQuoted
    /\ field.nextValue # <<>>
    /\ parser'.gen # parser.gen
    /\ parser'.current.Type = "Quote"

\* C15: a Quote token that arrives outside quote-mode in a field whose
\* content so far is bare text, no quote seen before, is appended to the
\* content as a literal quote character, and quote-mode is entered.
C15_QuoteAfterBareTextIsLiteral ==
    [][QuoteAfterBareText =>
        /\ pc' = "loop"
        /\ field'.nextValue = Append(field.nextValue, <<DoubleQuote>>)
        /\ field'.isQuoteModeOn]_vars

\* An iteration of ReadNextCsvValue's loop pulls a Delimiter or
\* LineSeparator token in quote-mode.
SeparatorInQuoteMode ==
    /\ ReadNextCsvValueLoop
    /\ field.isQuoteModeOn
    /\ parser'.gen # parser.gen
    /\ parser'.current.Type \in {"Delimiter", "LineSeparator"}

\* An iteration of ReadNextCsvValue's loop ends the field: ReadNextCsvValue
\* returns.
FieldEnds ==
    /\ ReadNextCsvValueLoop
    /\ pc' # "loop"
    /\ result'.threw = "none"

IsSpecialAt(s, settings, i) ==
    LET rd == settings.RowDelimiter IN
    \/ s[i] = settings.FieldDelimiter
    \/ s[i] = settings.QuotingCharacter
    \/ Len(rd) = 1 /\ s[i] = rd[1]
    \/ Len(rd) = 2 /\ s[i] = rd[1] /\ i < Len(s) /\ s[i + 1] = rd[2]
    \/ Len(rd) = 2 /\ s[i] = rd[2] /\ i > 1 /\ s[i - 1] = rd[1]

\* The run of ordinary characters s ends with.
RECURSIVE PendingRun(_, _, _)
PendingRun(s, settings, i) ==
    IF i = 0 \/ IsSpecialAt(s, settings, i) THEN <<>>
    ELSE Append(PendingRun(s, settings, i - 1), s[i])

\* C17: for every input and valid settings, EndOfFile is only ever the last
\* token the Lexer has yielded, so nothing follows it and there is one at
\* most; the finished sequence ends with it; when it is yielded the input
\* is read to its end and a pending non-empty run of text is the Text token
\* right before it; no Text token is empty.
C17_OneEndOfFileLast ==
    ValidRowDelimiter(lexer.Settings) =>
        LET tokens == yielded.tokens
            n == Len(tokens)
            s == lexer.reader.content
            pending == PendingRun(s, lexer.Settings, Len(s))
        IN  /\ yielded.threw = "none"
            /\ \A k \in 1..(n - 1) : tokens[k].Type # "EndOfFile"
            /\ \A k \in 1..n : tokens[k].Type = "Text" => Len(tokens[k].Value) > 0
            /\ lexer.gen.pc = "done" => (n >= 1 /\ tokens[n].Type = "EndOfFile")
            /\ (n >= 1 /\ tokens[n].Type = "EndOfFile") =>
                    /\ lexer.gen.pc \in {"yield143", "done"}
                    /\ lexer.reader.position = Len(s)
                    /\ tokens[n].Value = Null
                    /\ IF pending # <<>>
                       THEN n >= 2 /\ tokens[n - 1] = Token("Text", pending)
                       ELSE n >= 2 => tokens[n - 1].Type # "Text"

\* The Lexer finished "a,a": the pending text a, then EndOfFile.
C17_Witness ==
    /\ lexer.gen.pc = "done"
    /\ lexer.reader.content = <<Ordinary, Comma, Ordinary>>
    /\ yielded.tokens = <<Token("Text", <<Ordinary>>), Token("Delimiter", <<Comma>>),
                          Token("Text", <<Ordinary>>), Token("EndOfFile", Null)>>

\* The texts the tokens carry, concatenated, EndOfFile counting as empty.
RECURSIVE ValuesOf(_)
ValuesOf(tokens) ==
    IF tokens = <<>> THEN <<>>
    ELSE (IF Head(tokens).Value = Null THEN <<>> ELSE Head(tokens).Value)
         \o ValuesOf(Tail(tokens))

\* C18: for every input and valid settings, the texts of the tokens yielded
\* so far, concatenated in order, are the beginning of the input, and the
\* whole input once EndOfFile is yielded; a Delimiter, Quote or
\* LineSeparator token carries the delimiter, quote or row-delimiter text
\* found at its place in the input, and every occurrence of a 2-character
\* row delimiter is one LineSeparator token.
C18_LosslessTokens ==
    ValidRowDelimiter(lexer.Settings) =>
        LET tokens == yielded.tokens
            s == lexer.reader.content
            rd == lexer.Settings.RowDelimiter
            text == ValuesOf(tokens)
        IN  /\ Len(text) <= Len(s)
            /\ text = SubSeq(s, 1, Len(text))
            /\ EndOfFileYielded => text = s
            /\ \A k \in 1..Len(tokens) :
                /\ tokens[k].Type = "Delimiter" =>
                        tokens[k].Value = <<lexer.Settings.FieldDelimiter>>
                /\ tokens[k].Type = "Quote" =>
                        tokens[k].Value = <<lexer.Settings.QuotingCharacter>>
                /\ tokens[k].Type = "LineSeparator" => tokens[k].Value = rd
                /\ tokens[k].Type = "EndOfFile" => tokens[k].Value = Null
                /\ tokens[k].Type \in {"Text", "Delimiter", "Quote", "LineSeparator", "EndOfFile"}
            /\ (EndOfFileYielded /\ Len(rd) = 2) =>
                    \A i \in 1..(Len(s) - 1) :
                        SubSeq(s, i, i + 1) = rd =>
                            \E k \in 1..Len(tokens) :
                                /\ tokens[k] = Token("LineSeparator", rd)
                                /\ Before(tokens, k) = i - 1

\* "a" CR LF "," was scanned under the row delimiter CR LF.
C18_Witness ==
    /\ EndOfFileYielded
    /\ lexer.reader.content = <<Ordinary, CR, LF, Comma>>
    /\ yielded.tokens = <<Token("Text", <<Ordinary>>), Token("LineSeparator", <<CR, LF>>),
                          Token("Delimiter", <<Comma>>), Token("EndOfFile", Null)>>

\* The tokens the Lexer's generator has yet to yield to the Parser p.
Remaining(p) == drain(p.Settings, scanReader(p.Settings, p.reader, p.gen))

\* C19: for every input and valid settings, a ReadToEnd call returns or
\* raises, and when it returns the Parser is at EndOfFile; a ReadNextRow
\* made while HasMoreRows holds finds a token to pull and enters the
\* field-reading loop; every iteration of that loop pulls exactly the next
\* token of the Lexer's sequence.
C19_Termination ==
    /\ (ValidRowDelimiter(parser.Settings) /\ caller = "ReadToEnd")
            ~> (/\ pc = "idle"
                /\ result.op = "ReadToEnd"
                /\ result.threw = "none" => ~HasMoreRows(parser))
    /\ [](pc # "idle" => caller \in {"ReadNextRow", "ReadToEnd"})
    /\ []((/\ ValidRowDelimiter(parser.Settings)
            /\ parser.tokens = "scanReader"
            /\ HasMoreRows(parser))
                => Remaining(parser) # <<>>)
    /\ [][ReadNextCsvValue => pc' = "loop"]_vars
    /\ [][(/\ ReadNextCsvValueLoop
           /\ ValidRowDelimiter(parser.Settings)
           /\ parser.tokens = "scanReader"
           /\ Remaining(parser) # <<>>)
          => (/\ parser'.current = Head(Remaining(parser))
              /\ Remaining(parser') = Tail(Remaining(parser)))]_vars

\* ReadToEnd returned the rows of a four-character input, the Parser at
\* EndOfFile with the whole input read.
C19_Witness ==
    /\ pc = "idle"
    /\ result.op = "ReadToEnd"
    /\ result.threw = "none"
    /\ Len(result.rows) = 2
    /\ ~HasMoreRows(parser)
    /\ Len(parser.reader.content) = 4
    /\ parser.reader.position = 4
    /\ parser.gen.pc = "yield143"

\* A field value that is absent or a non-empty text.
AbsentOrNonEmpty(v) == v = Null \/ Len(v) > 0

EachAbsentOrNonEmpty(row) == \A i \in 1..Len(row) : AbsentOrNonEmpty(row[i])

\* The Parser as constructed, nothing read yet.
Fresh == pc = "idle" /\ parser.tokens = "scanReader" /\ parser.gen.pc = "start"

\* s begins with a quoted empty field: two quote characters, then the end
\* of the input, a delimiter or a row delimiter.
BeginsWithQuotedEmpty(s, settings) ==
    /\ Len(s) >= 2
    /\ s[1] = settings.QuotingCharacter
    /\ s[2] = settings.QuotingCharacter
    /\ \/ Len(s) = 2
       \/ Len(s) >= 3 /\ s[3] = settings.FieldDelimiter
       \/ /\ Len(s) >= 2 + Len(settings.RowDelimiter)
          /\ SubSeq(s, 3, 2 + Len(settings.RowDelimiter)) = settings.RowDelimiter

\* C20: every field value the Parser returns, or has collected for a row it
\* is reading, from ReadNextRow, ReadToEnd, Parse or ParseSingleRow, is
\* absent or a non-empty text, never the empty text; an input that begins
\* with a quoted empty field parses as the same input without the two
\* quote characters, the field absent.
C20_NoEmptyText ==
    /\ EachAbsentOrNonEmpty(rowValues)
    /\ result.row # NullRow => EachAbsentOrNonEmpty(result.row)
    /\ \A k \in 1..Len(result.rows) : EachAbsentOrNonEmpty(result.rows[k])
    /\ \A k \in 1..Len(rows) : rows[k] # NullRow => EachAbsentOrNonEmpty(rows[k])
    /\ Fresh =>
        LET s == parser.reader.content
            settings == parser.Settings
        IN  /\ EachAbsentOrNonEmpty(ParseSingleRow(s, settings).value)
            /\ \A k \in 1..Len(Parse(s, settings).value) :
                    EachAbsentOrNonEmpty(Parse(s, settings).value[k])
            /\ (ValidRowDelimiter(settings) /\ BeginsWithQuotedEmpty(s, settings)) =>
                    /\ Parse(s, settings) = Parse(SubSeq(s, 3, Len(s)), settings)
                    /\ ParseSingleRow(s, settings)
                            = ParseSingleRow(SubSeq(s, 3, Len(s)), settings)

\* ReadNextRow returned the row of "", a: the quoted empty field absent.
C20_Witness ==
    /\ result.op = "ReadNextRow"
    /\ parser.reader.content = <<DoubleQuote, DoubleQuote, Comma, Ordinary>>
    /\ result.row = <<Null, (<<Ordinary>>)>>

====
